---- MODULE Spec2Model ----
(***************************************************************************)
(* Document-to-text pipeline of the repository:                            *)
(*   extractTextFromFile / extractTextFromIPYNB   (extract-text module)    *)
(*   detectFileEncoding / readFileWithEncoding    (utils/file-encoding.ts) *)
(* Every await of the code is one step of a call; the file system is the   *)
(* environment and may change between two steps.                           *)
(***************************************************************************)
EXTENDS Integers, Sequences, FiniteSets, TLC

VARIABLES
    file,       \* the file on disk the calls are given
    envEvents,  \* number of changes the environment made to the file
    calls,      \* the invocations in flight, one record per call
    nbInput,    \* payload handed to the notebook extractor
    nbResult,   \* outcome of the notebook extractor on nbInput
    refresh     \* an AutoConversationRefresh object and its last call

vars == <<file, envEvents, calls, nbInput, nbResult, refresh>>

-----------------------------------------------------------------------------
(* Bounds and program constants *)

MaxEnvEvents == 1
MaxCells == 2
MaxBudget == 3

SizeLimitKB == 300
SampleSize == 4096
ConfidenceThresholdPct == 80

-----------------------------------------------------------------------------
(* Outcomes of a call: a returned value or a thrown error *)

Ok(v) == [kind |-> "ok", val |-> v]
Err(v) == [kind |-> "err", val |-> v]
NoResult == [kind |-> "none", val |-> <<>>]

Min2(a, b) == IF a <= b THEN a ELSE b

\* No call made yet on an AutoConversationRefresh object
NoCall ==
    [op |-> "none", returned |-> FALSE, before |-> 0, index |-> 0,
     messages |-> <<>>, contextWindow |-> 0]

\* lines 10-12: the field initializers, in percent for the threshold
DefaultMaxRefreshCount == 10
DefaultThresholdPct == 70

\* lines 10-17: the object the runs without conversation refresh hold
IdleRefresh ==
    [refreshCount |-> 0, maxRefreshCount |-> DefaultMaxRefreshCount,
     tokenThresholdPct |-> DefaultThresholdPct, trues |-> 0,
     resetAtMax |-> FALSE, last |-> NoCall]


-----------------------------------------------------------------------------
(* Library functions the code calls, on the finite vocabulary of the model *)

\* String.prototype.toLowerCase on the strings that occur in the model
LowerTable ==
    [x \in {".pdf", ".PDF", ".docx", ".ipynb", ".txt", ""} |->
        IF x = ".PDF" THEN ".pdf" ELSE x]
    @@
    ("UTF-8" :> "utf-8" @@ "GBK" :> "gbk" @@ "Big5" :> "big5" @@
     "windows-1252" :> "windows-1252" @@ "ISO-8859-2" :> "iso-8859-2" @@
     "SHIFT_JIS" :> "shift_jis" @@ "UTF-16LE" :> "utf-16le" @@
     "ascii" :> "ascii" @@ "IBM866" :> "ibm866" @@ "KOI8-R" :> "koi8-r" @@
     "ISO-2022-JP" :> "iso-2022-jp" @@ "EUC-TW" :> "euc-tw")

ToLowerCase(str) == LowerTable[str]

\* path.extname on the paths of the model
ExtNameTable ==
    "/w/report.pdf" :> ".pdf" @@ "/w/REPORT.PDF" :> ".PDF" @@
    "/w/notes.docx" :> ".docx" @@ "/w/nb.ipynb" :> ".ipynb" @@
    "/w/a.txt" :> ".txt" @@ "/w/Makefile" :> ""

ExtName(filePath) == ExtNameTable[filePath]

Paths == DOMAIN ExtNameTable

\* iconv.encodingExists: the names iconv-lite can decode, among those the
\* model produces
IconvSupported ==
    {"ascii", "utf16le", "gbk", "big5", "win1252", "latin2", "shiftjis",
     "ibm866", "koi8-r"}

IconvEncodingExists(encoding) == encoding \in IconvSupported

-----------------------------------------------------------------------------
(* normalizeEncodingName *)

EncodingMap ==
    "ascii" :> "ascii" @@ "utf-8" :> "utf8" @@
    "utf-16le" :> "utf16le" @@ "utf-16be" :> "utf16be" @@
    "iso-8859-1" :> "latin1" @@ "iso-8859-2" :> "latin2" @@
    "iso-8859-3" :> "latin3" @@ "iso-8859-4" :> "latin4" @@
    "iso-8859-5" :> "latin5" @@ "iso-8859-6" :> "latin6" @@
    "iso-8859-7" :> "latin7" @@ "iso-8859-8" :> "latin8" @@
    "iso-8859-9" :> "latin9" @@ "iso-8859-10" :> "latin10" @@
    "windows-1250" :> "win1250" @@ "windows-1251" :> "win1251" @@
    "windows-1252" :> "win1252" @@ "windows-1253" :> "win1253" @@
    "windows-1254" :> "win1254" @@ "windows-1255" :> "win1255" @@
    "windows-1256" :> "win1256" @@ "windows-1257" :> "win1257" @@
    "windows-1258" :> "win1258" @@
    "gbk" :> "gbk" @@ "gb2312" :> "gb2312" @@ "gb18030" :> "gb18030" @@
    "big5" :> "big5" @@ "euc-jp" :> "eucjp" @@ "shift_jis" :> "shiftjis" @@
    "euc-kr" :> "euckr"

NormalizeEncodingName(encoding) ==
    LET lower == ToLowerCase(encoding)
    IN  IF lower \in DOMAIN EncodingMap THEN EncodingMap[lower] ELSE lower


-----------------------------------------------------------------------------
(* Text: a string is a sequence of one-character strings *)

Whitespace == {" ", "\n", "\t"}

\* String.prototype.trim
Trim(str) ==
    LET keep == {i \in 1..Len(str) : str[i] \notin Whitespace}
    IN  IF keep = {} THEN <<>>
        ELSE SubSeq(str,
                    CHOOSE i \in keep : \A j \in keep : i <= j,
                    CHOOSE i \in keep : \A j \in keep : i >= j)

UpperTable ==
    "m" :> "M" @@ "a" :> "A" @@ "r" :> "R" @@ "k" :> "K" @@ "d" :> "D" @@
    "o" :> "O" @@ "w" :> "W" @@ "n" :> "N" @@ "c" :> "C" @@ "e" :> "E"

\* String.prototype.toUpperCase
ToUpperCase(str) ==
    [i \in 1..Len(str) |->
        IF str[i] \in DOMAIN UpperTable THEN UpperTable[str[i]] ELSE str[i]]

-----------------------------------------------------------------------------
(* JSON values, as JSON.parse returns them *)

JAbsent == [t |-> "absent"]         \* undefined: the property is missing
JNull == [t |-> "null"]
JNum == [t |-> "num"]               \* a non-zero number
JStr(str) == [t |-> "str", s |-> str]
JArr(items) == [t |-> "arr", items |-> items]
JInvalid == [t |-> "invalid"]       \* text that JSON.parse rejects

JCell(type, source, outputs) ==
    [t |-> "obj", cell_type |-> type, source |-> source, outputs |-> outputs]
JOutput(type, text, data) ==
    [t |-> "obj", output_type |-> type, text |-> text, data |-> data]
JData(plain) == [t |-> "obj", plain |-> plain]
JNotebook(cells) == [t |-> "obj", cells |-> cells]

Markdown == <<"m", "a", "r", "k", "d", "o", "w", "n">>
Code == <<"c", "o", "d", "e">>
Raw == <<"r", "a", "w">>
Stream == <<"s", "t", "r", "e", "a", "m">>
ExecuteResult == <<"e", "x", "e", "c", "u", "t", "e", "_", "r", "e", "s", "u", "l", "t">>
DisplayData == <<"d", "i", "s", "p", "l", "a", "y", "_", "d", "a", "t", "a">>

\* JavaScript truthiness of a parsed value
Truthy(v) ==
    /\ v.t \notin {"absent", "null"}
    /\ v.t = "str" => v.s # <<>>

IsArray(v) == v.t = "arr"

RECURSIVE JoinFrom(_, _)
JoinFrom(items, i) ==
    IF i > Len(items) THEN <<>> ELSE items[i].s \o JoinFrom(items, i + 1)

\* Array.prototype.join("") on an array of strings
Join(items) == JoinFrom(items, 1)

TypeError == Err(<<"TypeError">>)

\* x.trim() is a TypeError unless x is a string
IsString(v) == v.t = "str"

-----------------------------------------------------------------------------
(* extractTextFromIPYNB, after the file was read *)

CellHeader(type) ==
    <<"-", "-", "-", " ">> \o ToUpperCase(type)
        \o <<" ", "C", "E", "L", "L", " ", "-", "-", "-", "\n">>
OutputLabel == <<"O", "U", "T", "P", "U", "T", ":", "\n">>
ResultLabel == <<"R", "E", "S", "U", "L", "T", ":", "\n">>

\* lines 76: the source of a cell, a string or an array of strings
ResolveSource(cell) ==
    IF IsArray(cell.source) THEN JStr(Join(cell.source.items))
    ELSE IF Truthy(cell.source) THEN cell.source
    ELSE JStr(<<>>)

\* lines 78-82
SourceSection(cell) ==
    LET source == ResolveSource(cell)
    IN  IF ~IsString(source) THEN TypeError
        ELSE IF Trim(source.s) # <<>>
             THEN Ok(CellHeader(cell.cell_type.s) \o source.s \o <<"\n", "\n">>)
             ELSE Ok(<<>>)

LabelledText(label, value) ==
    LET text == IF IsArray(value) THEN JStr(Join(value.items)) ELSE value
    IN  IF ~IsString(text) THEN TypeError
        ELSE IF Trim(text.s) # <<>>
             THEN Ok(label \o text.s \o <<"\n">>)
             ELSE Ok(<<>>)

\* `output.data && output.data["text/plain"]`
PlainOf(output) ==
    IF Truthy(output.data) /\ output.data.t = "obj"
    THEN output.data.plain
    ELSE JAbsent

\* lines 87-103: what one output appends
OutputSection(output) ==
    IF output.output_type = JStr(Stream) /\ Truthy(output.text)
    THEN LabelledText(OutputLabel, output.text)
    ELSE IF output.output_type = JStr(ExecuteResult) /\ Truthy(PlainOf(output))
    THEN LabelledText(ResultLabel, PlainOf(output))
    ELSE Ok(<<>>)

RECURSIVE OutputsFrom(_, _, _)
OutputsFrom(outputs, i, acc) ==
    IF i > Len(outputs) THEN Ok(acc)
    ELSE LET one == OutputSection(outputs[i])
         IN  IF one.kind = "err" THEN one
             ELSE OutputsFrom(outputs, i + 1, acc \o one.val)

IsRecognizedCell_any(cell) == TRUE

\* line 74
IsRecognizedCell(cell) ==
    cell.cell_type = JStr(Markdown) \/ cell.cell_type = JStr(Code)

\* line 85
HasOutputs(cell) == cell.cell_type = JStr(Code) /\ IsArray(cell.outputs)

\* lines 74-106: what one cell appends
CellSection(cell) ==
    IF ~IsRecognizedCell(cell) THEN Ok(<<>>)
    ELSE LET src == SourceSection(cell)
         IN  IF src.kind = "err" THEN src
             ELSE IF HasOutputs(cell)
                  THEN OutputsFrom(cell.outputs.items, 1, src.val)
                  ELSE src

RECURSIVE CellsFrom(_, _, _)
CellsFrom(cells, i, extractedText) ==
    IF i > Len(cells) THEN Ok(extractedText)
    ELSE LET one == CellSection(cells[i])
         IN  IF one.kind = "err" THEN one
             ELSE CellsFrom(cells, i + 1, extractedText \o one.val)

NotebookError == Err(<<"Failed to extract text from Jupyter notebook file">>)

\* notebook.cells: a TypeError on null, undefined on a value without cells
CellsOf(notebook) ==
    IF notebook.t = "null" THEN TypeError
    ELSE IF notebook.t = "obj" THEN Ok(notebook.cells)
    ELSE Ok(JAbsent)

FinalTrim_none(extractedText) == extractedText

\* line 110
FinalTrim(extractedText) == Trim(extractedText)

\* lines 66-114, on the parsed content of the file
ExtractNotebook(payload) ==
    IF payload.t = "invalid" THEN NotebookError
    ELSE LET cells == CellsOf(payload)
         IN  IF cells.kind = "err" THEN NotebookError
             ELSE IF ~IsArray(cells.val) THEN Ok(FinalTrim(<<>>))
             ELSE LET body == CellsFrom(cells.val.items, 1, <<>>)
                  IN  IF body.kind = "err" THEN NotebookError
                      ELSE Ok(FinalTrim(body.val))


-----------------------------------------------------------------------------
(* The file system, as the calls see it *)

\* What jschardet.detect answers on the sample of a file: it throws, or it
\* returns {encoding, confidence}; encoding "" stands for null, confidence is
\* in hundredths
Throws == [t |-> "throws", encoding |-> "", confidence |-> 0]
Detected(encoding, pct) ==
    [t |-> "result", encoding |-> encoding, confidence |-> pct]

DetResults ==
    { Throws,
      Detected("", 0),
      Detected("UTF-8", 99),
      Detected("ascii", 100),
      Detected("GBK", ConfidenceThresholdPct - 1),
      Detected("GBK", ConfidenceThresholdPct),
      Detected("windows-1252", 95),
      Detected("SHIFT_JIS", 81),
      Detected("IBM866", 90),
      Detected("ISO-2022-JP", 99) }

\* Byte lengths; the two around the ceiling are whole kilobytes
Lengths ==
    {0, 5, SampleSize, SampleSize + 1, SizeLimitKB * 1000,
     (SizeLimitKB + 1) * 1000}

\* Parsed content of the .ipynb files of the dispatcher runs
SmallDocs ==
    { JInvalid, JNull, JNum, JNotebook(JAbsent),
      JNotebook(JArr(<<JCell(JStr(Markdown), JStr(<<"#", " ", "T">>), JAbsent)>>)),
      JNotebook(JArr(<<
          JCell(JStr(Code), JStr(<<"p">>),
                JArr(<<JOutput(JStr(Stream), JStr(<<"H", "\n">>), JAbsent)>>))>>)) }

SpecialExts == {".pdf", ".docx", ".ipynb"}

FilesAt(path) ==
    LET ext == ToLowerCase(ExtName(path))
    IN  { [path |-> path, exists |-> e, readable |-> r, length |-> n,
           binary |-> b, chardet |-> d, extractor |-> x, doc |-> j] :
            e \in BOOLEAN, r \in BOOLEAN,
            n \in (IF ext \in {".pdf", ".docx"} THEN {5}
                   ELSE IF ext = ".ipynb" THEN {5, SampleSize + 1}
                   ELSE Lengths),
            b \in (IF ext \in {".pdf", ".docx"} THEN {"binary"}
                   ELSE IF ext = ".ipynb" THEN {"text"}
                   ELSE {"text", "binary", "error"}),
            d \in (IF ext \in {".pdf", ".docx"} THEN {Detected("", 0)}
                   ELSE IF ext = ".ipynb"
                        THEN {Detected("UTF-8", 99), Detected("GBK", 95),
                              Detected("ISO-2022-JP", 99)}
                   ELSE DetResults),
            x \in (IF ext \in {".pdf", ".docx"} THEN {"text", "fail"}
                   ELSE {"none"}),
            j \in (IF ext = ".ipynb" THEN SmallDocs ELSE {JInvalid}) }

Files == UNION {FilesAt(path) : path \in Paths}

\* fs.readFile succeeds
CanRead(f) == f.exists /\ f.readable

\* fileExistsAtPath (utils/fs)
FileExistsAtPath(f) == f.exists

\* getFileSizeInKB (utils/fs): the size of the file in kilobytes; when the
\* file is gone the query either reports 0 or fails
GetFileSizeInKB(f) ==
    IF f.exists THEN {Ok(f.length \div 1000)}
    ELSE {Ok(0), Err(<<"ENOENT">>)}

\* The error fs.readFile throws
ReadError(f) == Err(<<IF f.exists THEN "EACCES" ELSE "ENOENT">>)

-----------------------------------------------------------------------------
(* The calls *)

Procs == {"c1", "c2"}

Ops == {"extractText", "detectEncoding", "readWithEncoding"}

EntryPc(op) ==
    CASE op = "extractText" -> "x_access"
      [] op = "detectEncoding" -> "d_exists"
      [] op = "readWithEncoding" -> "r_exists"
      [] OTHER -> "done"

NewCall(op) ==
    [op |-> op, pc |-> EntryPc(op), via |-> "none", ext |-> "",
     classified |-> "none", sizeQueried |-> FALSE, reads |-> 0,
     consulted |-> FALSE, sample |-> 0, fault |-> "none", enc |-> "",
     how |-> "none", warned |-> FALSE, readStarted |-> FALSE,
     readResult |-> NoResult, result |-> NoResult]

Done(c, outcome) == [c EXCEPT !.pc = "done", !.result = outcome]


-----------------------------------------------------------------------------
(* detectFileEncoding *)

DetectCatch_rethrow(error) == error

\* lines 41-45: the catch block turns every failure into "utf8"
DetectCatch(error) == Ok(<<"utf8">>)

LowConfidence_inclusive(result) ==
    result.encoding = "" \/ result.confidence <= ConfidenceThresholdPct

\* line 34
LowConfidence(result) ==
    result.encoding = "" \/ result.confidence < ConfidenceThresholdPct

\* line 30
SampleLength(length) == Min2(length, SampleSize)

\* lines 39-40 reached, or the early return of line 35
Classify(result) ==
    IF LowConfidence(result) THEN Ok(<<"utf8">>)
    ELSE Ok(<<NormalizeEncodingName(result.encoding)>>)

\* detectFileEncoding returns (or throws) `outcome`: to its caller when it
\* was called alone, into readFileWithEncoding otherwise
ReadReturn(c, outcome) ==
    LET r == [c EXCEPT !.readResult = outcome]
    IN  IF c.op = "extractText" /\ c.via = "ipynb"
        THEN Done(r, IF outcome.kind = "err" THEN NotebookError
                     ELSE ExtractNotebook(file.doc))
        ELSE Done(r, outcome)

DetectReturn(c, outcome) ==
    IF c.op = "detectEncoding" THEN Done(c, outcome)
    ELSE IF outcome.kind = "err" THEN ReadReturn(c, outcome)
    ELSE [c EXCEPT !.pc = "r_read", !.enc = outcome.val[1]]

\* lines 15-17
DExists(p) ==
    /\ calls[p].pc = "d_exists"
    /\ LET c == calls[p]
       IN  calls' = [calls EXCEPT ![p] =
             IF ~FileExistsAtPath(file)
             THEN DetectReturn([c EXCEPT !.fault = "missing"],
                      DetectCatch(Err(<<"File does not exist: ", file.path>>)))
             ELSE [c EXCEPT !.pc = "d_read"]]
    /\ UNCHANGED <<file, envEvents, nbInput, nbResult, refresh>>

\* lines 21-40
DRead(p) ==
    /\ calls[p].pc = "d_read"
    /\ LET c == [calls[p] EXCEPT !.reads = @ + 1]
       IN  calls' = [calls EXCEPT ![p] =
             IF ~CanRead(file)
             THEN DetectReturn([c EXCEPT !.fault = "readfail"],
                               DetectCatch(ReadError(file)))
             ELSE IF file.length = 0
             THEN DetectReturn(c, Ok(<<"utf8">>))
             ELSE LET s == [c EXCEPT !.consulted = TRUE,
                                     !.sample = SampleLength(file.length)]
                  IN  IF file.chardet.t = "throws"
                      THEN DetectReturn([s EXCEPT !.fault = "classifier"],
                                        DetectCatch(Err(<<"jschardet">>)))
                      ELSE DetectReturn(s, Classify(file.chardet))]
    /\ UNCHANGED <<file, envEvents, nbInput, nbResult, refresh>>

-----------------------------------------------------------------------------
(* readFileWithEncoding *)

\* lines 105-107; the catch of lines 125-128 rethrows
RExists(p) ==
    /\ calls[p].pc = "r_exists"
    /\ LET c == [calls[p] EXCEPT !.readStarted = TRUE]
       IN  calls' = [calls EXCEPT ![p] =
             IF ~FileExistsAtPath(file)
             THEN ReadReturn(c, Err(<<"File does not exist: ", file.path>>))
             ELSE [c EXCEPT !.pc = "d_exists"]]
    /\ UNCHANGED <<file, envEvents, nbInput, nbResult, refresh>>

ReadDecode_throwing(encoding) ==
    IF encoding = "utf8"
    THEN [how |-> "utf8direct", warned |-> FALSE,
          outcome |-> Ok(<<"content", "utf8">>)]
    ELSE IF ~IconvEncodingExists(encoding)
    THEN [how |-> "iconv", warned |-> FALSE,
          outcome |-> Err(<<"Encoding not recognized: ", encoding>>)]
    ELSE [how |-> "iconv", warned |-> FALSE,
          outcome |-> Ok(<<"content", encoding>>)]

\* lines 113-124, the file being readable: which decoder produces the string
ReadDecode(encoding) ==
    IF encoding = "utf8"
    THEN [how |-> "utf8direct", warned |-> FALSE,
          outcome |-> Ok(<<"content", "utf8">>)]
    ELSE IF ~IconvEncodingExists(encoding)
    THEN [how |-> "utf8fallback", warned |-> TRUE,
          outcome |-> Ok(<<"content", "utf8">>)]
    ELSE [how |-> "iconv", warned |-> FALSE,
          outcome |-> Ok(<<"content", encoding>>)]

\* lines 113-124
RRead(p) ==
    /\ calls[p].pc = "r_read"
    /\ LET c == [calls[p] EXCEPT !.reads = @ + 1]
           d == ReadDecode(c.enc)
       IN  calls' = [calls EXCEPT ![p] =
             IF ~CanRead(file)
             THEN ReadReturn(c, ReadError(file))
             ELSE ReadReturn([c EXCEPT !.how = d.how, !.warned = d.warned],
                             d.outcome)]
    /\ UNCHANGED <<file, envEvents, nbInput, nbResult, refresh>>

-----------------------------------------------------------------------------
(* extractTextFromFile *)

\* lines 17-24: the branch of the switch
Route(fileExtension) ==
    CASE fileExtension = ".pdf" -> "x_pdf"
      [] fileExtension = ".docx" -> "x_docx"
      [] fileExtension = ".ipynb" -> "r_exists"
      [] OTHER -> "x_isbinary"

AccessOk_exclusive(p) ==
    /\ file.exists
    /\ \A q \in Procs \ {p} : calls[q].pc \in {"x_access", "done"}

\* line 12: fs.access(filePath) of invocation p succeeds
AccessOk(p) == file.exists

\* lines 11-23
XAccess(p) ==
    /\ calls[p].pc = "x_access"
    /\ LET c == calls[p]
           fileExtension == ToLowerCase(ExtName(file.path))
       IN  calls' = [calls EXCEPT ![p] =
             IF ~AccessOk(p)
             THEN Done(c, Err(<<"File not found: ", file.path>>))
             ELSE [c EXCEPT !.ext = fileExtension,
                            !.pc = Route(fileExtension),
                            !.via = IF fileExtension = ".ipynb" THEN "ipynb"
                                    ELSE "none"]]
    /\ UNCHANGED <<file, envEvents, nbInput, nbResult, refresh>>

\* lines 40-49
XPdf(p) ==
    /\ calls[p].pc = "x_pdf"
    /\ LET c == [calls[p] EXCEPT !.reads = @ + 1]
       IN  calls' = [calls EXCEPT ![p] =
             IF ~CanRead(file) \/ file.extractor = "fail"
             THEN Done(c, Err(<<"Failed to extract text from PDF file">>))
             ELSE Done(c, Ok(<<"pdf-text">>))]
    /\ UNCHANGED <<file, envEvents, nbInput, nbResult, refresh>>

\* lines 51-60
XDocx(p) ==
    /\ calls[p].pc = "x_docx"
    /\ LET c == [calls[p] EXCEPT !.reads = @ + 1]
       IN  calls' = [calls EXCEPT ![p] =
             IF ~CanRead(file) \/ file.extractor = "fail"
             THEN Done(c, Err(<<"Failed to extract text from DOCX file">>))
             ELSE Done(c, Ok(<<"docx-text">>))]
    /\ UNCHANGED <<file, envEvents, nbInput, nbResult, refresh>>

\* What the classifier did: it answered, or it failed
Classification(f) ==
    IF ~CanRead(f) \/ f.binary = "error" THEN "failed" ELSE f.binary

IsBinaryOrCatch_strict(classified) == classified # "text"

\* line 25: isBinaryFile(filePath).catch(() => false)
IsBinaryOrCatch(classified) == classified = "binary"

\* lines 25-26 and 34-36
XIsBinary(p) ==
    /\ calls[p].pc = "x_isbinary"
    /\ LET c == [calls[p] EXCEPT !.classified = Classification(file)]
       IN  calls' = [calls EXCEPT ![p] =
             IF IsBinaryOrCatch(c.classified)
             THEN Done(c, Err(<<"Cannot read text for file type: ", c.ext>>))
             ELSE [c EXCEPT !.pc = "x_size"]]
    /\ UNCHANGED <<file, envEvents, nbInput, nbResult, refresh>>

SizeTooLarge_inclusive(fileSizeInKB) == fileSizeInKB >= SizeLimitKB

\* line 29
SizeTooLarge(fileSizeInKB) == fileSizeInKB > SizeLimitKB

\* lines 28-33
XSize(p) ==
    /\ calls[p].pc = "x_size"
    /\ \E size \in GetFileSizeInKB(file) :
         LET c == [calls[p] EXCEPT !.sizeQueried = TRUE]
         IN  calls' = [calls EXCEPT ![p] =
               IF size.kind = "err" THEN Done(c, size)
               ELSE IF SizeTooLarge(size.val)
               THEN Done(c, Err(<<"File is too large to read into context.">>))
               ELSE [c EXCEPT !.pc = "r_exists", !.via = "generic"]]
    /\ UNCHANGED <<file, envEvents, nbInput, nbResult, refresh>>

-----------------------------------------------------------------------------
(* The environment *)

Running == \E p \in Procs : calls[p].pc # "done"

DeleteFile ==
    /\ Running
    /\ envEvents < MaxEnvEvents
    /\ file.exists
    /\ file' = [file EXCEPT !.exists = FALSE]
    /\ envEvents' = envEvents + 1
    /\ UNCHANGED <<calls, nbInput, nbResult, refresh>>

RevokeRead ==
    /\ Running
    /\ envEvents < MaxEnvEvents
    /\ file.exists /\ file.readable
    /\ file' = [file EXCEPT !.readable = FALSE]
    /\ envEvents' = envEvents + 1
    /\ UNCHANGED <<calls, nbInput, nbResult, refresh>>

-----------------------------------------------------------------------------
(* One call, or two calls of extractText, on one file *)

Init ==
    /\ file \in {f \in Files : ~f.exists => f.readable}
    /\ envEvents = 0
    /\ \/ \E op \in Ops :
             calls = [p \in Procs |->
                        IF p = "c1" THEN NewCall(op) ELSE NewCall("none")]
       \/ calls = [p \in Procs |-> NewCall("extractText")]
    /\ nbInput = JInvalid
    /\ nbResult = NoResult
    /\ refresh = IdleRefresh

Step(p) ==
    \/ XAccess(p) \/ XPdf(p) \/ XDocx(p) \/ XIsBinary(p) \/ XSize(p)
    \/ RExists(p) \/ DExists(p) \/ DRead(p) \/ RRead(p)

Next ==
    \/ \E p \in Procs : Step(p)
    \/ DeleteFile
    \/ RevokeRead

Spec == Init /\ [][Next]_vars


-----------------------------------------------------------------------------
(* The notebook extractor on its own: the payloads it is given *)

NbSources ==
    { JAbsent, JStr(<<>>), JStr(<<" ", "\n">>), JStr(<<"a">>),
      JStr(<<" ", "b", "\n">>),
      JArr(<<JStr(<<"a", "\n">>), JStr(<<"b">>)>>) }

StreamX == JOutput(JStr(Stream), JStr(<<"x">>), JAbsent)
ResultR == JOutput(JStr(ExecuteResult), JAbsent, JData(JStr(<<"r">>)))
DisplayD == JOutput(JStr(DisplayData), JStr(<<"d">>), JData(JStr(<<"d">>)))

NbOutputs ==
    { StreamX, ResultR, DisplayD,
      JOutput(JStr(Stream), JArr(<<JStr(<<"y", "\n">>), JStr(<<" ">>)>>), JAbsent),
      JOutput(JStr(Stream), JStr(<<" ">>), JAbsent),
      JOutput(JStr(Stream), JAbsent, JData(JStr(<<"q">>))),
      JOutput(JStr(ExecuteResult), JAbsent,
              JData(JArr(<<JStr(<<"1">>), JStr(<<"\n">>)>>))),
      JOutput(JStr(ExecuteResult), JAbsent, JData(JStr(<<"\n">>))),
      JOutput(JStr(ExecuteResult), JStr(<<"t">>), JAbsent),
      JOutput(JStr(Stream), JNum, JAbsent) }

NbOutputLists ==
    {JAbsent, JArr(<<>>)}
    \cup {JArr(<<o>>) : o \in NbOutputs}
    \cup {JArr(<<o1, o2>>) : o1, o2 \in {StreamX, ResultR, DisplayD}}

NbCells ==
    {JCell(JStr(Code), src, JAbsent) : src \in NbSources}
    \cup {JCell(JStr(Code), JStr(<<" ", "\n">>), outs) : outs \in NbOutputLists}
    \cup {JCell(JStr(Code), JStr(<<" ", "b", "\n">>), JArr(<<o>>)) :
            o \in {StreamX, ResultR, DisplayD}}
    \cup {JCell(JStr(Markdown), src, JAbsent) : src \in NbSources}
    \cup { JCell(JStr(Markdown), JStr(<<"a">>), JArr(<<StreamX>>)),
           JCell(JStr(Raw), JStr(<<"a">>), JArr(<<StreamX>>)),
           JCell(JStr(Raw), JNum, JAbsent),
           JCell(JStr(Code), JNum, JAbsent) }

CellLists == UNION {[1..n -> NbCells] : n \in 0..MaxCells}

\* Payloads that are no notebook: nothing under `cells`, or no array there
NoCellsPayloads ==
    { JNull, JNum, JStr(<<"a">>), JArr(<<>>), JNotebook(JAbsent),
      JNotebook(JNull), JNotebook(JNum), JNotebook(JStr(<<"a">>)),
      JNotebook(JNotebook(JAbsent)) }

Payloads ==
    {JInvalid} \cup NoCellsPayloads \cup {JNotebook(JArr(cs)) : cs \in CellLists}

IdleFile ==
    [path |-> "/w/nb.ipynb", exists |-> TRUE, readable |-> TRUE, length |-> 5,
     binary |-> "text", chardet |-> Detected("UTF-8", 99),
     extractor |-> "none", doc |-> JInvalid]

InitNotebook ==
    /\ file = IdleFile
    /\ envEvents = 0
    /\ calls = [p \in Procs |-> NewCall("none")]
    /\ nbInput \in Payloads
    /\ nbResult = NoResult
    /\ refresh = IdleRefresh

\* lines 66-114 on the content readFileWithEncoding returned
ExtractIPYNB ==
    /\ nbResult.kind = "none"
    /\ nbResult' = ExtractNotebook(nbInput)
    /\ UNCHANGED <<file, envEvents, calls, nbInput, refresh>>

NextNotebook == ExtractIPYNB

SpecNotebook == InitNotebook /\ [][NextNotebook]_vars


-----------------------------------------------------------------------------
(* One invocation run alone on a file nobody touches: the code read as a   *)
(* sequential function of the file                                         *)

\* detectFileEncoding
SoloDetect(f) ==
    IF ~FileExistsAtPath(f)
    THEN DetectCatch(Err(<<"File does not exist: ", f.path>>))
    ELSE IF ~CanRead(f) THEN DetectCatch(ReadError(f))
    ELSE IF f.length = 0 THEN Ok(<<"utf8">>)
    ELSE IF f.chardet.t = "throws" THEN DetectCatch(Err(<<"jschardet">>))
    ELSE Classify(f.chardet)

\* readFileWithEncoding
SoloRead(f) ==
    IF ~FileExistsAtPath(f) THEN Err(<<"File does not exist: ", f.path>>)
    ELSE LET encoding == SoloDetect(f)
         IN  IF encoding.kind = "err" THEN encoding
             ELSE IF ~CanRead(f) THEN ReadError(f)
             ELSE ReadDecode(encoding.val[1]).outcome

\* extractTextFromFile
SoloExtract(f) ==
    IF ~f.exists THEN Err(<<"File not found: ", f.path>>)
    ELSE LET fileExtension == ToLowerCase(ExtName(f.path))
             pc == Route(fileExtension)
         IN  CASE pc = "x_pdf" ->
                    IF ~CanRead(f) \/ f.extractor = "fail"
                    THEN Err(<<"Failed to extract text from PDF file">>)
                    ELSE Ok(<<"pdf-text">>)
               [] pc = "x_docx" ->
                    IF ~CanRead(f) \/ f.extractor = "fail"
                    THEN Err(<<"Failed to extract text from DOCX file">>)
                    ELSE Ok(<<"docx-text">>)
               [] pc = "r_exists" ->
                    IF SoloRead(f).kind = "err" THEN NotebookError
                    ELSE ExtractNotebook(f.doc)
               [] OTHER ->
                    IF IsBinaryOrCatch(Classification(f))
                    THEN Err(<<"Cannot read text for file type: ", fileExtension>>)
                    ELSE IF SizeTooLarge(f.length \div 1000)
                    THEN Err(<<"File is too large to read into context.">>)
                    ELSE SoloRead(f)

-----------------------------------------------------------------------------
(* The error kinds of the specification, as the code raises them *)

NotFound(path) == Err(<<"File does not exist: ", path>>)
FileTooLarge == Err(<<"File is too large to read into context.">>)
UnsupportedBinaryFormat(ext) == Err(<<"Cannot read text for file type: ", ext>>)
IoErrors == {Err(<<"ENOENT">>), Err(<<"EACCES">>)}

Finished(op) == {p \in Procs : calls[p].op = op /\ calls[p].pc = "done"}

Unmodified == envEvents = 0

\* extractText got past its existence check and took the default branch
GenericRun(p) ==
    /\ p \in Finished("extractText")
    /\ calls[p].result # Err(<<"File not found: ", file.path>>)
    /\ ToLowerCase(ExtName(file.path)) \notin SpecialExts

-----------------------------------------------------------------------------
(* Claims on the dispatcher and on the encoding functions *)

\* C1: extractText on an existing file with a generic extension that is
\* classified non-binary fails with FileTooLarge, before readWithEncoding is
\* started, when the file is larger than 300 KB; at 300 KB or less the size
\* check passes and the call returns what readWithEncoding returns.
C1_SizeCeiling ==
    \A p \in Procs :
        (GenericRun(p) /\ file.exists
                       /\ calls[p].classified \in {"text", "failed"})
        => IF file.length > SizeLimitKB * 1000
           THEN /\ calls[p].result = FileTooLarge
                /\ ~calls[p].readStarted
                /\ calls[p].reads = 0
           ELSE /\ calls[p].sizeQueried
                /\ calls[p].readStarted
                /\ calls[p].readResult.kind # "none"
                /\ calls[p].result = calls[p].readResult

C1_Witness ==
    \E p \in Procs :
        /\ GenericRun(p)
        /\ file.length = SizeLimitKB * 1000
        /\ calls[p].classified = "text"
        /\ calls[p].result.kind = "ok"

\* C2: on a path that does not exist, detectEncoding and readWithEncoding
\* both end in the failure 'File does not exist: <path>'.
C2_MissingFileFails ==
    \A p \in Finished("detectEncoding") \cup Finished("readWithEncoding") :
        (Unmodified /\ ~file.exists) => calls[p].result = NotFound(file.path)

ListedPairs ==
    { <<"ascii", "ascii">>, <<"utf-8", "utf8">>, <<"utf-16le", "utf16le">>,
      <<"utf-16be", "utf16be">>, <<"gbk", "gbk">>, <<"gb2312", "gb2312">>,
      <<"gb18030", "gb18030">>, <<"big5", "big5">>, <<"euc-jp", "eucjp">>,
      <<"shift_jis", "shiftjis">>, <<"euc-kr", "euckr">> }
    \cup {<<"iso-8859-" \o ToString(i), "latin" \o ToString(i)>> : i \in 1..10}
    \cup {<<"windows-" \o ToString(i), "win" \o ToString(i)>> : i \in 1250..1258}

ListedName(lower) ==
    IF \E pair \in ListedPairs : pair[1] = lower
    THEN (CHOOSE pair \in ListedPairs : pair[1] = lower)[2]
    ELSE lower

\* The name the detection is said to return for a readable file
ListedEncoding(f) ==
    IF f.length = 0 THEN "utf8"
    ELSE IF f.chardet.encoding = "" THEN "utf8"
    ELSE IF f.chardet.confidence < ConfidenceThresholdPct THEN "utf8"
    ELSE ListedName(ToLowerCase(f.chardet.encoding))

\* C4: for a readable file detectEncoding returns utf8 when the buffer is
\* empty (the classifier is not consulted), utf8 when the classifier, run on
\* the first min(length, 4096) bytes, yields no candidate or a confidence
\* below 0.8, and otherwise (0.8 included) the lowercased candidate mapped
\* through the normalization table, or itself when the table has no entry.
C4_DetectResult ==
    \A p \in Finished("detectEncoding") :
        (Unmodified /\ CanRead(file) /\ file.chardet.t # "throws")
        => /\ calls[p].result = Ok(<<ListedEncoding(file)>>)
           /\ calls[p].consulted <=> file.length # 0
           /\ calls[p].consulted
              => calls[p].sample = Min2(file.length, SampleSize)
           /\ calls[p].reads = 1

C4_Witness ==
    \E p \in Finished("detectEncoding") :
        /\ Unmodified /\ CanRead(file)
        /\ file.length = SampleSize + 1
        /\ file.chardet = Detected("GBK", ConfidenceThresholdPct)
        /\ calls[p].result = Ok(<<"gbk">>)

\* C8: two invocations of extractText on the same unmodified file, run one
\* after the other or interleaved, end with the same outcome, which is the
\* outcome of one invocation run alone; neither depends on the other.
C8_Independent ==
    Unmodified
    => /\ \A p \in Finished("extractText") :
            calls[p].result = SoloExtract(file)
       /\ \A p, q \in Finished("extractText") : calls[p] = calls[q]

C8_Witness ==
    /\ Unmodified
    /\ Finished("extractText") = Procs
    /\ \A p \in Procs : calls[p].result.kind = "ok" /\ calls[p].reads = 2

\* C9: extractText on an existing file with a generic extension fails with
\* UnsupportedBinaryFormat exactly when the classifier completes and answers
\* binary, and then neither the size query nor a content read is made; when
\* the classifier fails the file is taken as non-binary and the call goes on
\* to the size check and the read.
C9_BinaryRejection ==
    \A p \in Procs :
        GenericRun(p)
        => /\ calls[p].result = UnsupportedBinaryFormat(calls[p].ext)
              <=> calls[p].classified = "binary"
           /\ calls[p].ext = ToLowerCase(ExtName(file.path))
           /\ calls[p].classified = "binary"
              => /\ ~calls[p].sizeQueried
                 /\ ~calls[p].readStarted
                 /\ calls[p].reads = 0
           /\ calls[p].classified = "failed"
              => /\ calls[p].sizeQueried
                 /\ ~calls[p].readStarted
                    => calls[p].result \in {FileTooLarge} \cup IoErrors
           /\ Unmodified
              => /\ calls[p].classified = "binary"
                    <=> (CanRead(file) /\ file.binary = "binary")
                 /\ calls[p].classified = "failed"
                    <=> (~CanRead(file) \/ file.binary = "error")

C9_Witness ==
    \E p \in Procs :
        /\ GenericRun(p)
        /\ file.binary = "error"
        /\ calls[p].classified = "failed"
        /\ calls[p].readStarted
        /\ calls[p].result.kind = "ok"

\* C10: on a file that exists and stays readable for the whole call,
\* readWithEncoding returns a string: by one direct UTF-8 read when the
\* detection says utf8, by decoding the bytes with the detected encoding when
\* the conversion library supports it, and otherwise, after a warning, by
\* decoding the bytes as UTF-8. Its only failures are NotFound and I/O errors.
C10_ReadNeverFailsOnEncoding ==
    \A p \in Finished("readWithEncoding") :
        LET c == calls[p]
        IN  /\ c.result.kind = "err"
               => c.result \in {NotFound(file.path)} \cup IoErrors
            /\ CanRead(file)
               => /\ c.result.kind = "ok"
                  /\ c.reads = 2
                  /\ c.enc = SoloDetect(file).val[1]
                  /\ c.enc = "utf8"
                     => /\ c.how = "utf8direct" /\ ~c.warned
                        /\ c.result = Ok(<<"content", "utf8">>)
                  /\ (c.enc # "utf8" /\ c.enc \in IconvSupported)
                     => /\ c.how = "iconv" /\ ~c.warned
                        /\ c.result = Ok(<<"content", c.enc>>)
                  /\ (c.enc # "utf8" /\ c.enc \notin IconvSupported)
                     => /\ c.how = "utf8fallback" /\ c.warned
                        /\ c.result = Ok(<<"content", "utf8">>)

C10_Witness ==
    \E p \in Finished("readWithEncoding") :
        /\ CanRead(file)
        /\ calls[p].enc = "iso-2022-jp"
        /\ calls[p].warned
        /\ calls[p].result = Ok(<<"content", "utf8">>)


-----------------------------------------------------------------------------
(* Claims on the notebook extractor *)

Blank(str) == \A i \in 1..Len(str) : str[i] \in Whitespace

RECURSIVE DropLeading(_)
DropLeading(str) ==
    IF str # <<>> /\ Head(str) \in Whitespace THEN DropLeading(Tail(str))
    ELSE str

RECURSIVE DropTrailing(_)
DropTrailing(str) ==
    IF str # <<>> /\ str[Len(str)] \in Whitespace
    THEN DropTrailing(SubSeq(str, 1, Len(str) - 1))
    ELSE str

RECURSIVE Concat(_)
Concat(parts) ==
    IF parts = <<>> THEN <<>> ELSE Head(parts) \o Concat(Tail(parts))

\* A string-or-fragments field, joined; a missing field is the empty string
Joined(v) ==
    IF v.t = "str" THEN v.s
    ELSE IF v.t = "arr" THEN Concat([i \in 1..Len(v.items) |-> v.items[i].s])
    ELSE <<>>

ListedHeader(type) ==
    IF type = JStr(Markdown)
    THEN <<"-", "-", "-", " ", "M", "A", "R", "K", "D", "O", "W", "N", " ",
           "C", "E", "L", "L", " ", "-", "-", "-", "\n">>
    ELSE <<"-", "-", "-", " ", "C", "O", "D", "E", " ",
           "C", "E", "L", "L", " ", "-", "-", "-", "\n">>

ListedOutput(output) ==
    IF output.output_type = JStr(Stream) /\ ~Blank(Joined(output.text))
    THEN <<"O", "U", "T", "P", "U", "T", ":", "\n">>
            \o Joined(output.text) \o <<"\n">>
    ELSE IF /\ output.output_type = JStr(ExecuteResult)
            /\ output.data.t = "obj"
            /\ ~Blank(Joined(output.data.plain))
    THEN <<"R", "E", "S", "U", "L", "T", ":", "\n">>
            \o Joined(output.data.plain) \o <<"\n">>
    ELSE <<>>

ListedCell(cell) ==
    IF cell.cell_type \notin {JStr(Markdown), JStr(Code)} THEN <<>>
    ELSE (IF Blank(Joined(cell.source)) THEN <<>>
          ELSE ListedHeader(cell.cell_type) \o Joined(cell.source)
                  \o <<"\n", "\n">>)
         \o (IF cell.cell_type = JStr(Code) /\ cell.outputs.t = "arr"
             THEN Concat([i \in 1..Len(cell.outputs.items) |->
                            ListedOutput(cell.outputs.items[i])])
             ELSE <<>>)

ListedText(cells) ==
    DropTrailing(DropLeading(
        Concat([i \in 1..Len(cells) |-> ListedCell(cells[i])])))

HasCells(payload) == payload.t = "obj" /\ payload.cells.t = "arr"

StringOrFragments(v) == v.t \in {"absent", "null", "str", "arr"}

\* Every field the extractor uses is a string or a sequence of strings, as
\* the consumed notebook shape says
Shaped(payload) ==
    \A i \in 1..Len(payload.cells.items) :
        LET cell == payload.cells.items[i]
        IN  cell.cell_type \in {JStr(Markdown), JStr(Code)}
            => /\ StringOrFragments(cell.source)
               /\ (cell.cell_type = JStr(Code) /\ cell.outputs.t = "arr")
                  => \A k \in 1..Len(cell.outputs.items) :
                        LET o == cell.outputs.items[k]
                        IN  /\ StringOrFragments(o.text)
                            /\ o.data.t = "obj"
                               => StringOrFragments(o.data.plain)

\* C5: the extracted text of a notebook is the trim, once at the end, of the
\* concatenation in source order of a header, the untrimmed source and two
\* newlines for each markdown or code cell whose source is not blank, followed
\* for a code cell by OUTPUT: or RESULT: sections of its stream and
\* execute_result outputs that are not blank; blank fields give no section and
\* a code cell's outputs are emitted even when its source is blank or absent.
C5_NotebookText ==
    (nbResult.kind # "none" /\ HasCells(nbInput) /\ Shaped(nbInput))
    => nbResult = Ok(ListedText(nbInput.cells.items))

C5_Witness ==
    /\ nbInput = JNotebook(JArr(<<
            JCell(JStr(Code), JStr(<<" ", "\n">>), JArr(<<ResultR, StreamX>>)),
            JCell(JStr(Markdown), JStr(<<" ", "b", "\n">>), JAbsent) >>))
    /\ nbResult = Ok(<<"R", "E", "S", "U", "L", "T", ":", "\n", "r", "\n",
                       "O", "U", "T", "P", "U", "T", ":", "\n", "x", "\n",
                       "-", "-", "-", " ", "M", "A", "R", "K", "D", "O", "W",
                       "N", " ", "C", "E", "L", "L", " ", "-", "-", "-", "\n",
                       " ", "b">>)

StripOutputs(cell) ==
    IF cell.cell_type = JStr(Markdown) THEN [cell EXCEPT !.outputs = JAbsent]
    ELSE IF cell.outputs.t = "arr"
    THEN [cell EXCEPT !.outputs =
            JArr(SelectSeq(cell.outputs.items,
                    LAMBDA o : o.output_type \in {JStr(Stream),
                                                  JStr(ExecuteResult)}))]
    ELSE cell

\* The notebook without its unrecognized cells and outputs, and without the
\* outputs of its markdown cells
Strip(payload) ==
    LET kept == SelectSeq(payload.cells.items,
                    LAMBDA cell : cell.cell_type \in {JStr(Markdown), JStr(Code)})
    IN  JNotebook(JArr([i \in 1..Len(kept) |-> StripOutputs(kept[i])]))

\* C6: removing every cell that is neither markdown nor code, every output
\* that is neither stream nor execute_result, and the outputs of markdown
\* cells, never changes the extracted text nor turns a success into a failure.
C6_UnrecognizedSkipped ==
    (nbResult.kind = "ok" /\ HasCells(nbInput))
    => ExtractNotebook(Strip(nbInput)) = nbResult

C6_Witness ==
    /\ nbInput = JNotebook(JArr(<<
            JCell(JStr(Raw), JStr(<<"a">>), JArr(<<StreamX>>)),
            JCell(JStr(Code), JStr(<<" ", "\n">>), JArr(<<DisplayD, StreamX>>)) >>))
    /\ Strip(nbInput) = JNotebook(JArr(<<
            JCell(JStr(Code), JStr(<<" ", "\n">>), JArr(<<StreamX>>)) >>))
    /\ nbResult = Ok(<<"O", "U", "T", "P", "U", "T", ":", "\n", "x">>)

\* C7: a payload that parses as JSON and has no `cells`, or has `cells` that
\* is no sequence, whatever its top-level value, extracts to the empty string;
\* the extraction fails only when the JSON does not parse.
C7_NoCellsIsEmpty ==
    (nbResult.kind # "none" /\ nbInput # JInvalid /\ ~HasCells(nbInput))
    => nbResult = Ok(<<>>)


-----------------------------------------------------------------------------
(* AutoConversationRefresh: the refresh budget *)

\* A number field of the parsed request info: <<>> when missing, <<n>> else
NoField == <<>>
Info(tokensIn, tokensOut, cacheWrites, cacheReads) ==
    [tokensIn |-> tokensIn, tokensOut |-> tokensOut,
     cacheWrites |-> cacheWrites, cacheReads |-> cacheReads]
NoInfo == Info(NoField, NoField, NoField, NoField)

\* A ClineMessage by its text: missing, empty, not JSON, the JSON null, or
\* the JSON of a ClineApiReqInfo
Message(text, info) == [text |-> text, info |-> info]

Infos ==
    { NoInfo,
      Info(<<69>>, NoField, NoField, NoField),
      Info(<<70>>, NoField, <<0>>, NoField),
      Info(<<30>>, <<20>>, <<10>>, <<10>>),
      Info(<<30>>, <<20>>, <<10>>, <<9>>),
      Info(<<100>>, <<50>>, NoField, <<50>>) }

Messages ==
    {Message(text, NoInfo) : text \in {"missing", "empty", "invalid", "null"}}
    \cup {Message("json", info) : info \in Infos}

MessageLists ==
    {<<>>} \cup {<<m>> : m \in Messages}
           \cup {<<Message("missing", NoInfo), m>> : m \in Messages}

Indexes == {-1, 0, 1, 2}
ContextWindows == {100, 200}
ThresholdPcts == {0, DefaultThresholdPct, 100}
MaxRefreshCounts == (-1 .. MaxBudget) \cup {DefaultMaxRefreshCount}

\* x || 0
OrZero(field) == IF field = NoField THEN 0 ELSE field[1]

\* line 45
TotalTokens(info) ==
    OrZero(info.tokensIn) + OrZero(info.tokensOut)
        + OrZero(info.cacheWrites) + OrZero(info.cacheReads)

BudgetExhausted_late(refreshCount, maxRefreshCount) ==
    refreshCount > maxRefreshCount

\* line 35
BudgetExhausted(refreshCount, maxRefreshCount) ==
    refreshCount >= maxRefreshCount

\* line 49, the threshold in percent
OverThreshold(totalTokens, contextWindow, thresholdPct) ==
    totalTokens * 100 >= contextWindow * thresholdPct

\* lines 40-42: clineMessages[previousApiReqIndex] is there and has a text
HasRequestText(clineMessages, previousApiReqIndex) ==
    /\ previousApiReqIndex >= 0
    /\ previousApiReqIndex + 1 <= Len(clineMessages)
    /\ clineMessages[previousApiReqIndex + 1].text \notin {"missing", "empty"}

\* lines 43-55: JSON.parse and the destructuring succeed; otherwise the catch
\* logs and the call falls through to `return false`
ParsesToInfo(message) == message.text = "json"

\* lines 35-59: the value shouldRefreshConversation returns
ShouldRefresh(r, clineMessages, previousApiReqIndex, contextWindow) ==
    /\ ~BudgetExhausted(r.refreshCount, r.maxRefreshCount)
    /\ HasRequestText(clineMessages, previousApiReqIndex)
    /\ ParsesToInfo(clineMessages[previousApiReqIndex + 1])
    /\ OverThreshold(TotalTokens(clineMessages[previousApiReqIndex + 1].info),
                     contextWindow, r.tokenThresholdPct)

\* lines 14-17
InitRefresh ==
    /\ file = IdleFile
    /\ envEvents = 0
    /\ calls = [p \in Procs |-> NewCall("none")]
    /\ nbInput = JInvalid
    /\ nbResult = NoResult
    /\ \E max \in MaxRefreshCounts, pct \in ThresholdPcts :
         refresh = [IdleRefresh EXCEPT !.maxRefreshCount = max,
                                       !.tokenThresholdPct = pct]

\* lines 33-60
ShouldRefreshConversation ==
    /\ \E clineMessages \in MessageLists, previousApiReqIndex \in Indexes,
          contextWindow \in ContextWindows :
         LET returned == ShouldRefresh(refresh, clineMessages,
                                       previousApiReqIndex, contextWindow)
             call == [op |-> "shouldRefreshConversation",
                      returned |-> returned,
                      before |-> refresh.refreshCount,
                      index |-> previousApiReqIndex,
                      messages |-> clineMessages,
                      contextWindow |-> contextWindow]
         IN  refresh' =
               IF returned
               THEN [refresh EXCEPT !.refreshCount = @ + 1,
                                    !.trues = @ + 1,
                                    !.last = call]
               ELSE [refresh EXCEPT !.last = call]
    /\ UNCHANGED <<file, envEvents, calls, nbInput, nbResult>>

\* lines 22-24
Reset ==
    /\ refresh' = [refresh EXCEPT
                     !.refreshCount = 0,
                     !.trues = 0,
                     !.resetAtMax = @ \/ (refresh.maxRefreshCount > 0
                         /\ refresh.refreshCount = refresh.maxRefreshCount),
                     !.last = [NoCall EXCEPT !.op = "reset",
                                             !.before = refresh.refreshCount]]
    /\ UNCHANGED <<file, envEvents, calls, nbInput, nbResult>>

NextRefresh == ShouldRefreshConversation \/ Reset

SpecRefresh == InitRefresh /\ [][NextRefresh]_vars

\* The causes the claim lists for a call that returns false
ListedRefusal(call, max, pct) ==
    \/ call.before >= max
    \/ call.index < 0
    \/ call.index >= Len(call.messages)
    \/ call.messages[call.index + 1].text # "json"
    \/ LET i == call.messages[call.index + 1].info
           total == (IF i.tokensIn = <<>> THEN 0 ELSE i.tokensIn[1])
                  + (IF i.tokensOut = <<>> THEN 0 ELSE i.tokensOut[1])
                  + (IF i.cacheWrites = <<>> THEN 0 ELSE i.cacheWrites[1])
                  + (IF i.cacheReads = <<>> THEN 0 ELSE i.cacheReads[1])
       IN  total * 100 < call.contextWindow * pct

\* C11: with maxRefreshCount >= 0, after any sequence of
\* shouldRefreshConversation and reset calls 0 <= refreshCount <=
\* maxRefreshCount; a call that returns true adds exactly 1 to refreshCount, a
\* call that returns false (budget exhausted, negative index, missing or
\* unparsable previous request, tokens below contextWindow * threshold) leaves
\* it unchanged; between two resets at most maxRefreshCount calls return true;
\* reset sets refreshCount to 0, after which refreshes are possible again.
C11_RefreshBudget ==
    refresh.maxRefreshCount >= 0
    => /\ 0 <= refresh.refreshCount
       /\ refresh.refreshCount <= refresh.maxRefreshCount
       /\ refresh.trues <= refresh.maxRefreshCount
       /\ refresh.last.op = "shouldRefreshConversation"
          => /\ refresh.last.returned
                => refresh.refreshCount = refresh.last.before + 1
             /\ ~refresh.last.returned
                => refresh.refreshCount = refresh.last.before
             /\ ~refresh.last.returned
                <=> ListedRefusal(refresh.last, refresh.maxRefreshCount,
                                  refresh.tokenThresholdPct)
       /\ refresh.last.op = "reset"
          => refresh.refreshCount = 0 /\ refresh.trues = 0

C11_Witness ==
    /\ refresh.maxRefreshCount = 2
    /\ refresh.resetAtMax
    /\ refresh.last.op = "shouldRefreshConversation"
    /\ refresh.last.returned
    /\ refresh.last.before = 0
    /\ refresh.refreshCount = 1

=============================================================================
